---- MODULE Spec2Model ----
(***************************************************************************)
(* A model of the extension registrar, the partial constructor, the table  *)
(* configuration, the copy policy and the representation directive of      *)
(* Open MCT.                                                               *)
(*                                                                         *)
(* JavaScript values are modelled as follows.  A string is a TLA+ string.  *)
(* An object is a record; a property the object does not have is a field   *)
(* missing from the record's DOMAIN.  An array is a sequence.  A call that *)
(* may throw yields an outcome [threw, value].                             *)
(***************************************************************************)
EXTENDS Integers, Sequences, FiniteSets, TLC

VARIABLES
    \* ExtensionRegistrar
    registeredCategories, \* the closure's flag object (its own properties)
    appFactories,         \* every app.factory(name, arg) call made so far
    flagWrites,           \* how often each category's flag was written
    processed,            \* categories registerExtensionsForCategory returned true for
    extensionGroup,       \* argument of the latest registerExtensions call
    wasRegistered,        \* own flags as they were when that call began
    factoryCalls,         \* app.factory calls made by that call
    customCalls,          \* custom-registrar invocations made by that call
    warnings,             \* $log.warn calls made by that call
    returned,             \* outcome of that call
    resolution,           \* latest invocation of a registered factory
    \* identify, makeServiceArgument as functions of their arguments
    subject,              \* the arguments drawn: category, extension, index
    identified,           \* identify(category, extension, index)
    serviceArgument,      \* makeServiceArgument(category, extension)
    produced,             \* the service factory's latest invocation
    \* PartialConstructor
    partialCall,          \* latest use: Constructor, services, other arguments
    partialOutcome,       \* its outcome
    applied,              \* every Constructor.apply made so far
    \* TableConfiguration
    columnConfiguration,  \* this.columnConfiguration
    model,                \* the domain object's model
    saved,                \* argument of the latest saveColumnConfiguration
    previous,             \* columnConfiguration and model before that call
    invoked,              \* whether that call used the mutation capability
    mutated,              \* whether the mutation callback then ran
    everMutated,          \* whether any call has
    columns,              \* this.columns
    built,                \* argument of the latest buildColumns call
    configured,           \* getColumnConfiguration's result for these columns
    \* CopyPolicy
    policyCall,           \* latest allow call: action, context
    decision,             \* what it returned, as a list of one boolean
    \* MCTRepresentation: one linked element
    linked,               \* whether link has run
    scope,                \* $scope: a field it has not is missing
    models,               \* each domain object's model
    gestureHandle,        \* link's variable: <<>>, or <<h>> for handle h
    handles,              \* per handle attached so far, its destroy() calls
    pending,              \* capability resolutions requested and not completed
    warned,               \* whether the latest refresh logged a warning
    refreshes             \* refresh calls so far

regVars == <<registeredCategories, appFactories, flagWrites, processed,
             extensionGroup, wasRegistered, factoryCalls, customCalls,
             warnings, returned, resolution>>
pureVars == <<subject, identified, serviceArgument, produced>>
partialVars == <<partialCall, partialOutcome, applied>>
tableVars == <<columnConfiguration, model, saved, previous, invoked,
               mutated, everMutated>>

columnVars == <<columns, built, configured>>

\* The state of the components modelled after the first four.
policyVars == <<policyCall, decision>>
directiveVars == <<linked, scope, models, gestureHandle, handles, pending,
                   warned, refreshes>>
laterVars == <<columnVars, policyVars, directiveVars>>

vars == <<regVars, pureVars, partialVars, tableVars, laterVars>>

----------------------------------------------------------------------------
(* Bounds of the model *)

\* most extensions in one extension group
MaxExtensions == 2

----------------------------------------------------------------------------
(* JavaScript object model *)

\* Some of the properties every object inherits from Object.prototype.  The
\* registrar keeps its flags in an object literal, so a lookup of one of
\* these names finds the inherited (truthy) value.
ObjectPrototype == {"constructor", "toString", "hasOwnProperty"}

\* Methods of Array.prototype the code calls.
ArrayPrototype == {"slice", "concat", "forEach", "push"} \cup ObjectPrototype

\* The prototype chain of the two kinds of list a function body sees: a
\* real array, and the array-like `arguments` object.
PrototypeOf(class) ==
    IF class = "Array" THEN ArrayPrototype ELSE ObjectPrototype

Has(obj, p) == p \in DOMAIN obj

Return(v) == [threw |-> FALSE, value |-> v]
Throw(e) == [threw |-> TRUE, value |-> e]

\* A variable that holds nothing yet.
None == [none |-> TRUE]

\* obj[name] used as a condition, obj being an object literal whose own
\* properties are `own`
TruthyLookup(own, name) ==
    IF name \in DOMAIN own THEN own[name] ELSE name \in ObjectPrototype

\* arguments.slice(): a method call on the `arguments` object
ArgumentsSlice(items) ==
    IF "slice" \in PrototypeOf("Arguments")
    THEN Return(items)
    ELSE Throw("TypeError")

Str(s) == [typeof |-> "string", value |-> s]

SeqsUpTo(S, n) == UNION {[1..k -> S] : k \in 0..n}

----------------------------------------------------------------------------
(* PartialConstructor.js *)

\* PartialConstructor(Constructor): the first-stage function
PartialConstructor(Constructor) ==
    [typeof |-> "function", fn |-> "PartialConstructor",
     Constructor |-> Constructor]

\* Invoking the first-stage function with the services: "Bind services"
BindServices(Constructor, services) ==
    LET dependencies == ArgumentsSlice(services)
    IN  IF dependencies.threw
        THEN dependencies
        ELSE Return([typeof |-> "function", fn |-> "bound",
                     Constructor |-> Constructor,
                     dependencies |-> dependencies.value])

\* Invoking the second-stage function: "Bind everything else".  `fresh`
\* identifies the object literal the invocation creates.
BindEverythingElse(bound, others, fresh) ==
    LET other == ArgumentsSlice(others)
    IN  IF other.threw
        THEN [outcome |-> other, apply |-> <<>>]
        ELSE [outcome |-> Return([object |-> fresh,
                                  prototype |-> bound.Constructor.name]),
              apply |-> <<[Constructor |-> bound.Constructor.name,
                           instance |-> fresh,
                           arguments |-> bound.dependencies \o other.value]>>]

----------------------------------------------------------------------------
(* ExtensionRegistrar.js *)

\* The app (Angular module) the registrar was constructed with.
app == "app"

\* Constants.EXTENSION_SUFFIX
EXTENSION_SUFFIX == "[]"

\* The custom registrars the registrar was constructed with.
customRegistrars == [directives |-> TRUE]

\* extension.key ? ... : ...
KeyTruthy(extension) == Has(extension, "key") /\ extension.key # ""

\* identify, had it counted positions from one.
identifyFromOne(category, extension, index) ==
    LET name == IF KeyTruthy(extension)
                THEN extension.key \o "-" \o ToString(index + 1)
                ELSE ToString(index + 1)
    IN  category \o "[" \o name \o "]"

identify(category, extension, index) ==
    LET name == IF KeyTruthy(extension)
                THEN extension.key \o "-" \o ToString(index)
                ELSE ToString(index)
    IN  category \o "[" \o name \o "]"

echo == [typeof |-> "function", fn |-> "echo"]

\* Invoking echo.
CallEcho(args) == ArgumentsSlice(args)

staticFunction(value) ==
    [typeof |-> "function", fn |-> "staticFunction", value |-> value]

\* The returned function, had it returned its first argument when given one.
CallStaticFirstArgument(f, args) ==
    IF args = <<>> THEN Return(f.value) ELSE Return(args[1])

\* Invoking the function staticFunction(value) returned.
CallStatic(f, args) == Return(f.value)

makeServiceArgument(category, extension) ==
    LET dependencies == IF Has(extension, "depends")
                        THEN [i \in DOMAIN extension.depends |->
                                Str(extension.depends[i])]
                        ELSE <<>>
        factory == IF extension.typeof = "function"
                   THEN PartialConstructor(extension)
                   ELSE staticFunction(extension)
    IN  dependencies \o <<factory>>

\* One app.factory(name, arg) call; the category is kept beside it.
FactoryCall(category, name, arg) ==
    [category |-> category, name |-> name, arg |-> arg]

\* extensions.forEach(registerExtension): the app.factory calls, in order
registerExtension(category, extensions) ==
    [i \in DOMAIN extensions |->
        FactoryCall(category,
                    identify(category, extensions[i], i - 1),
                    makeServiceArgument(category, extensions[i]))]

registerExtensionArraysForCategory(category, names) ==
    FactoryCall(category,
                category \o EXTENSION_SUFFIX,
                [i \in DOMAIN names |-> Str(names[i])] \o <<echo>>)

\* What a category of a group leaves behind when it is skipped.
Skipped(flags, category) ==
    [flags |-> flags, factory |-> <<>>, custom |-> <<>>, wrote |-> <<>>,
     result |-> <<>>,
     warn |-> <<[category |-> category,
                 message |-> "Tried to register extensions for category "
                     \o category
                     \o " more than once. Ignoring all but first set."]>>]

\* Registered, had the flag been set only on the generic path.
RegisteredFlagOnGenericPathOnly(flags, category, extensions) ==
    LET individual == registerExtension(category, extensions)
        names == [i \in DOMAIN individual |-> individual[i].name]
        generic == ~TruthyLookup(customRegistrars, category)
    IN  [flags |-> IF generic THEN (category :> TRUE) @@ flags ELSE flags,
         factory |-> IF generic
                     THEN Append(individual,
                        registerExtensionArraysForCategory(category, names))
                     ELSE <<>>,
         custom |-> IF generic
                    THEN <<>>
                    ELSE [i \in DOMAIN extensions |->
                            [category |-> category,
                             extension |-> extensions[i],
                             index |-> i - 1]],
         wrote |-> IF generic THEN <<category>> ELSE <<>>,
         result |-> <<TRUE>>,
         warn |-> <<>>]

\* What a category of a group leaves behind when it is registered.
Registered(flags, category, extensions) ==
    LET individual == registerExtension(category, extensions)
        names == [i \in DOMAIN individual |-> individual[i].name]
        generic == ~TruthyLookup(customRegistrars, category)
    IN  [flags |-> (category :> TRUE) @@ flags,
         factory |-> IF generic
                     THEN Append(individual,
                        registerExtensionArraysForCategory(category, names))
                     ELSE <<>>,
         custom |-> IF generic
                    THEN <<>>
                    ELSE [i \in DOMAIN extensions |->
                            [category |-> category,
                             extension |-> extensions[i],
                             index |-> i - 1]],
         wrote |-> <<category>>,
         result |-> <<TRUE>>,
         warn |-> <<>>]

\* registerExtensionsForCategory, had the warning not ended it (a missing
\* else): the category is warned about and registered again.
registerExtensionsForCategoryUnchecked(flags, category, extensions) ==
    IF TruthyLookup(flags, category)
    THEN [Registered(flags, category, extensions) EXCEPT
            !.warn = Skipped(flags, category).warn, !.wrote = <<>>,
            !.result = <<>>]
    ELSE Registered(flags, category, extensions)

\* The effect of registerExtensionsForCategory on the flags `flags`.
registerExtensionsForCategory(flags, category, extensions) ==
    IF TruthyLookup(flags, category)
    THEN Skipped(flags, category)
    ELSE Registered(flags, category, extensions)

\* Object.keys(extensionGroup).forEach(...): the categories in key order,
\* each acting on the flags the one before it left.
RECURSIVE registerEach(_, _)
registerEach(flags, group) ==
    IF group = <<>>
    THEN [flags |-> flags, factory |-> <<>>, custom |-> <<>>,
          wrote |-> <<>>, done |-> {}, warn |-> <<>>]
    ELSE LET first == registerExtensionsForCategory(
                          flags, Head(group).category, Head(group).extensions)
             rest == registerEach(first.flags, Tail(group))
         IN  [flags |-> rest.flags,
              factory |-> first.factory \o rest.factory,
              custom |-> first.custom \o rest.custom,
              wrote |-> first.wrote \o rest.wrote,
              done |-> rest.done \cup
                       (IF first.result = <<TRUE>>
                        THEN {Head(group).category} ELSE {}),
              warn |-> first.warn \o rest.warn]

Count(seq, x) == Cardinality({i \in DOMAIN seq : seq[i] = x})

\* registerExtensions(group).  The effect of the forEach is bound once and
\* then written to the registrar's state and to the record of the call.
registerExtensionGroup(group) ==
    \E each \in {registerEach(registeredCategories, group)} :
        /\ registeredCategories' = each.flags
        /\ appFactories' = appFactories \o each.factory
        /\ flagWrites' = [c \in DOMAIN flagWrites \cup DOMAIN each.flags |->
                            (IF c \in DOMAIN flagWrites
                             THEN flagWrites[c] ELSE 0)
                            + Count(each.wrote, c)]
        /\ processed' = processed \cup each.done
        /\ extensionGroup' = group
        /\ wasRegistered' = DOMAIN registeredCategories
        /\ factoryCalls' = each.factory
        /\ customCalls' = each.custom
        /\ warnings' = each.warn
        /\ returned' = Return(app)
        /\ resolution' = None

----------------------------------------------------------------------------
(* The injector invoking what the registrar registered *)

\* Calling a function the registrar handed to app.factory.
Invoke(f, args) ==
    CASE f.fn = "echo" -> CallEcho(args)
      [] f.fn = "staticFunction" -> CallStatic(f, args)
      [] f.fn = "PartialConstructor" -> BindServices(f.Constructor, args)

\* A service no registration provides.
ServiceValue(name) == [service |-> name]

RECURSIVE Instantiate(_, _)
\* The value the injector gives for `name`: the latest registration under
\* that name among `registry`, instantiated, or an outside service.
InjectorGet(registry, name) ==
    LET found == {j \in DOMAIN registry : registry[j].name = name}
    IN  IF found = {}
        THEN Return(ServiceValue(name))
        ELSE Instantiate(registry,
                 registry[CHOOSE j \in found : \A k \in found : k <= j].arg)

\* Instantiating one registration: its dependencies first, in order, then
\* its last element applied to their values.
Instantiate(registry, arg) ==
    LET n == Len(arg) - 1
        values == [i \in 1..n |-> InjectorGet(registry, arg[i].value)]
        failed == {i \in 1..n : values[i].threw}
    IN  IF failed # {}
        THEN values[CHOOSE i \in failed : \A k \in failed : i <= k]
        ELSE Invoke(arg[Len(arg)], [i \in 1..n |-> values[i].value])

----------------------------------------------------------------------------
(* Registrar: inputs and actions *)

ExtStatic == [typeof |-> "object", key |-> "b[c", depends |-> <<"$q">>]
ExtConstructor == [typeof |-> "function", key |-> "c"]

Extensions == {ExtStatic, ExtConstructor}

\* An ordinary category, one with a custom registrar, and one whose name
\* Object.prototype also uses.
Categories == {"a", "directives", "constructor"}

\* Two ordinary categories whose names contain the characters identify adds.
BracketCategories == {"a", "a[b"}

\* An extension group is an object whose keys are categories; its keys are
\* enumerated in insertion order, so it is a sequence of distinct categories
\* with their lists.  Groups of zero, one and two categories are drawn.
Entry(c, l) == [category |-> c, extensions |-> l]

ExtensionGroups(categories) ==
    LET lists == SeqsUpTo(Extensions, MaxExtensions)
    IN  {<<>>}
        \cup {<<Entry(c, l)>> : c \in categories, l \in lists}
        \cup {<<Entry(p[1], q[1]), Entry(p[2], q[2])>> :
                p \in {p \in categories \X categories : p[1] # p[2]},
                q \in {q \in lists \X lists :
                         Len(q[1]) + Len(q[2]) <= MaxExtensions}}

Groups == ExtensionGroups(Categories)
BracketGroups == ExtensionGroups(BracketCategories)

RegisterExtensions ==
    /\ \E group \in Groups : registerExtensionGroup(group)
    /\ UNCHANGED <<pureVars, partialVars, tableVars, laterVars>>

RegisterBracketExtensions ==
    /\ \E group \in BracketGroups : registerExtensionGroup(group)
    /\ UNCHANGED <<pureVars, partialVars, tableVars, laterVars>>

\* The injector instantiates one of the registered factories.
Resolve ==
    /\ \E i \in DOMAIN appFactories :
          resolution' = [name |-> appFactories[i].name,
                         category |-> appFactories[i].category,
                         arg |-> appFactories[i].arg,
                         outcome |-> Instantiate(appFactories,
                                                 appFactories[i].arg)]
    /\ UNCHANGED <<registeredCategories, appFactories, flagWrites, processed,
                   extensionGroup, wasRegistered, factoryCalls, customCalls,
                   warnings, returned>>
    /\ UNCHANGED <<pureVars, partialVars, tableVars, laterVars>>

----------------------------------------------------------------------------
(* identify and makeServiceArgument applied to drawn arguments *)

\* largest position of an extension in its list
MaxIndex == 11

KeyChoices == {"", "k", "copy"}
DependsChoices == {<<>>, <<"a", "b">>}

\* Extensions with and without a key, with and without depends, plain
\* values and constructor functions.
AllExtensions ==
    LET kinds == {[typeof |-> t] : t \in {"object", "function"}}
        keyed == kinds \cup
                 {[typeof |-> e.typeof, key |-> k] : e \in kinds, k \in KeyChoices}
    IN  keyed \cup
        {("depends" :> d) @@ e : e \in keyed, d \in DependsChoices}

NamedCategories == {"types", "actions"}

\* Values the injector may pass for a declared dependency.
DependencyValues == {ServiceValue("x"), ServiceValue("y")}

Identify ==
    /\ identified' = <<identify(subject.category, subject.extension,
                                subject.index)>>
    /\ UNCHANGED <<subject, serviceArgument, produced>>
    /\ UNCHANGED <<regVars, partialVars, tableVars, laterVars>>

MakeServiceArgument ==
    /\ serviceArgument' = makeServiceArgument(subject.category,
                                              subject.extension)
    /\ produced' = None
    /\ UNCHANGED <<subject, identified>>
    /\ UNCHANGED <<regVars, partialVars, tableVars, laterVars>>

\* The injector calls the factory with one value per declared dependency.
InvokeFactory ==
    /\ serviceArgument # <<>>
    /\ \E args \in [1..(Len(serviceArgument) - 1) -> DependencyValues] :
          produced' = [args |-> args,
                       outcome |-> Invoke(serviceArgument[Len(serviceArgument)],
                                          args)]
    /\ UNCHANGED <<subject, identified, serviceArgument>>
    /\ UNCHANGED <<regVars, partialVars, tableVars, laterVars>>

----------------------------------------------------------------------------
(* PartialConstructor: use *)

\* most arguments given to one stage
MaxArgs == 2

Constructors == {[name |-> "Action"], [name |-> "View"], [name |-> "Type"]}
Services == {"$q", "$log"}
Arguments == {"x", "y"}

\* PartialConstructor(Constructor)(services...)(others...)
UsePartialConstructor ==
    /\ \E Constructor \in Constructors,
          services \in SeqsUpTo(Services, MaxArgs),
          others \in SeqsUpTo(Arguments, MaxArgs) :
          LET first == BindServices(Constructor, services)
              second == BindEverythingElse(first.value, others,
                                           Len(applied) + 1)
          IN  /\ partialCall' = [Constructor |-> Constructor,
                                 services |-> services, others |-> others]
              /\ IF first.threw
                 THEN /\ partialOutcome' = first
                      /\ applied' = applied
                 ELSE /\ partialOutcome' = second.outcome
                      /\ applied' = applied \o second.apply
    /\ UNCHANGED <<regVars, pureVars, tableVars, laterVars>>

----------------------------------------------------------------------------
(* TableConfiguration.js *)

Titles == {"Name", "Time", "Value"}

\* A column configuration: some titles, each visible or not.
Configurations == UNION {[T -> BOOLEAN] : T \in SUBSET Titles}

\* equal, had it not compared the numbers of keys.
equalEveryKeyOnly(obj1, obj2) ==
    \A key \in DOMAIN obj1 : key \in DOMAIN obj2 /\ obj1[key] = obj2[key]

equal(obj1, obj2) ==
    /\ Cardinality(DOMAIN obj1) = Cardinality(DOMAIN obj2)
    /\ \A key \in DOMAIN obj1 : key \in DOMAIN obj2 /\ obj1[key] = obj2[key]

\* obj.field || {}
OrEmpty(obj, field) == IF field \in DOMAIN obj THEN obj[field] ELSE <<>>

\* obj with obj.field = value
Assign(obj, field, value) == (field :> value) @@ obj

\* The callback saveColumnConfiguration hands to the mutation capability.
Mutator(m, columnConfig) ==
    LET configuration == OrEmpty(m, "configuration")
        table == OrEmpty(configuration, "table")
    IN  Assign(m, "configuration",
               Assign(configuration, "table",
                      Assign(table, "columns", columnConfig)))

\* domainObject.useCapability('mutation', mutator): a domain object that
\* has the capability runs the mutator on its model (`runs`); one that has
\* not leaves the model alone.
UseMutation(m, columnConfig, runs) ==
    IF runs THEN Mutator(m, columnConfig) ELSE m

saveColumnConfiguration(columnConfig, runs) ==
    /\ saved' = [columnConfig |-> columnConfig]
    /\ previous' = [columnConfiguration |-> columnConfiguration,
                    model |-> model]
    /\ IF ~equal(columnConfiguration, columnConfig)
       THEN /\ invoked' = TRUE
            /\ model' = UseMutation(model, columnConfig, runs)
            /\ columnConfiguration' = IF runs THEN columnConfig
                                              ELSE columnConfiguration
            /\ mutated' = runs
            /\ everMutated' = (everMutated \/ runs)
       ELSE /\ invoked' = FALSE
            /\ mutated' = FALSE
            /\ UNCHANGED <<model, columnConfiguration, everMutated>>

SaveColumnConfiguration ==
    /\ \E columnConfig \in Configurations, runs \in BOOLEAN :
          saveColumnConfiguration(columnConfig, runs)
    /\ UNCHANGED <<regVars, pureVars, partialVars, laterVars>>

\* Models a domain object may have when its table configuration is made.
InitialModels ==
    {<<>>,
     [configuration |-> <<>>],
     [configuration |-> [table |-> <<>>]],
     [configuration |-> [table |-> [columns |-> [Name |-> FALSE]]]],
     [name |-> "Telemetry", configuration |-> [table |-> [rows |-> "10"]]]}

----------------------------------------------------------------------------
(* TableConfiguration.js: the columns *)

\* most entries in the metadata given to buildColumns
MaxMetadata == 2

\* The column classes.  A column remembers the metadata it was made from;
\* the name column is made from none.
DomainColumn(domainMetadata) ==
    [column |-> "domain", metadata |-> domainMetadata]
RangeColumn(rangeMetadata) ==
    [column |-> "range", metadata |-> rangeMetadata]
NameColumn == [column |-> "name"]

\* addColumn(column, index) on the column list cols.  `index` is the list
\* of what was passed for the optional parameter: <<>> when it was omitted.
addColumn(cols, column, index) ==
    IF index = <<>>
    THEN Append(cols, column)
    ELSE SubSeq(cols, 1, index[1]) \o <<column>>
            \o SubSeq(cols, index[1] + 1, Len(cols))

\* (list || []).forEach(item => self.addColumn(new Column(item)))
RECURSIVE addEach(_, _, _)
addEach(cols, kind, list) ==
    IF list = <<>>
    THEN cols
    ELSE addEach(addColumn(cols,
                           IF kind = "domain" THEN DomainColumn(Head(list))
                                              ELSE RangeColumn(Head(list)),
                           <<>>),
                 kind, Tail(list))

\* metadata.forEach: each metadatum's domains, then its ranges.
RECURSIVE forEachMetadatum(_, _)
forEachMetadatum(cols, metadata) ==
    IF metadata = <<>>
    THEN cols
    ELSE LET metadatum == Head(metadata)
             withDomains == addEach(cols, "domain",
                                    OrEmpty(metadatum, "domains"))
             withRanges == addEach(withDomains, "range",
                                   OrEmpty(metadatum, "ranges"))
         IN  forEachMetadatum(withRanges, Tail(metadata))

\* buildColumns(metadata): the new value of this.columns.  The argument is
\* [given |-> FALSE] when it is undefined and [given |-> TRUE, value |-> the
\* array] otherwise.
buildColumns(metadata) ==
    IF metadata.given
    THEN LET pushed == forEachMetadatum(<<>>, metadata.value)
         IN  IF Len(pushed) > 0
             THEN addColumn(pushed, NameColumn, <<0>>)
             ELSE pushed
    ELSE <<>>

\* Metadata of domains and of ranges; `local` carries no name.
DomainMetadata == [time |-> [key |-> "utc", name |-> "Time"],
                   local |-> [key |-> "local"]]
RangeMetadata == [value |-> [key |-> "sin", name |-> "Value"],
                  constructor |-> [key |-> "ctor", name |-> "constructor"]]

\* What a metadatum may carry as domains and as ranges: nothing (<<>>), or
\* one list (<<list>>).
DomainChoices == {<<>>, <<<<DomainMetadata.time>>>>,
                  <<<<DomainMetadata.time, DomainMetadata.local>>>>}
RangeChoices == {<<>>, <<<<>>>>, <<<<RangeMetadata.value>>>>,
                 <<<<RangeMetadata.value, RangeMetadata.constructor>>>>}

Metadatum(d, r) ==
    (IF d = <<>> THEN <<>> ELSE [domains |-> d[1]])
        @@ (IF r = <<>> THEN <<>> ELSE [ranges |-> r[1]])

Metadata ==
    {[given |-> FALSE]} \cup
    {[given |-> TRUE, value |-> v] :
        v \in SeqsUpTo({Metadatum(d, r) : d \in DomainChoices,
                                          r \in RangeChoices},
                       MaxMetadata)}

BuildColumns ==
    /\ \E metadata \in Metadata :
          /\ columns' = buildColumns(metadata)
          /\ built' = [metadata |-> metadata]
    \* a configuration read off the old columns is out of date
    /\ configured' = None
    /\ UNCHANGED <<regVars, pureVars, partialVars, tableVars, policyVars,
                   directiveVars>>

\* column.getTitle(), as the list of what it returns: <<>> for undefined.
getTitle(column) ==
    IF column.column = "name"
    THEN <<"Name">>
    ELSE IF Has(column.metadata, "name")
         THEN <<column.metadata.name>>
         ELSE <<>>

getColumnTitle(column) == getTitle(column)

\* getHeaders(): title || 'Column ' + (i + 1), i counting from 0.
getHeaders(cols) ==
    [p \in DOMAIN cols |->
        LET title == getColumnTitle(cols[p])
        IN  IF title = <<>> \/ title[1] = ""
            THEN "Column " \o ToString(p)
            ELSE title[1]]

\* ((model.configuration || {}).table || {}).columns || {}
defaultColumnConfiguration(m) ==
    OrEmpty(OrEmpty(OrEmpty(m, "configuration"), "table"), "columns")

\* What Object.prototype holds under an inherited name.
Inherited(name) == [typeof |-> "function", inherited |-> name]

\* typeof defaultConfig[columnTitle] === 'undefined' ? true :
\* defaultConfig[columnTitle], the lookup following the prototype chain.
\* A visibility is kept as [typeof |-> "boolean", value |-> b].
Visible(b) == [typeof |-> "boolean", value |-> b]

ConfigurationValue(defaultConfig, columnTitle) ==
    IF columnTitle \in DOMAIN defaultConfig
    THEN Visible(defaultConfig[columnTitle])
    ELSE IF columnTitle \in ObjectPrototype
         THEN Inherited(columnTitle)
         ELSE Visible(TRUE)

\* getColumnConfiguration(): the object it returns, by own keys.
getColumnConfiguration(cols, m) ==
    LET defaultConfig == defaultColumnConfiguration(m)
        headers == getHeaders(cols)
    IN  [columnTitle \in {headers[p] : p \in DOMAIN headers} |->
            ConfigurationValue(defaultConfig, columnTitle)]

GetColumnConfiguration ==
    /\ configured' = [headers |-> getHeaders(columns),
                      model |-> model,
                      configuration |-> getColumnConfiguration(columns, model)]
    /\ UNCHANGED <<columns, built>>
    /\ UNCHANGED <<regVars, pureVars, partialVars, tableVars, policyVars,
                   directiveVars>>

\* Models of a domain object whose table has columns: without a persisted
\* configuration, and with one that hides a column and names a title no
\* column has.
ColumnModels ==
    {<<>>,
     [configuration |-> [table |-> <<>>]],
     [configuration |-> [table |-> [columns |-> [Name |-> FALSE,
                                                 Value |-> TRUE,
                                                 Range |-> FALSE]]]]}

----------------------------------------------------------------------------
(* CopyPolicy *)

\* domainObject.getCapability(name), as the list of what it returns: <<>>
\* when the object has no such capability.
getCapability(domainObject, name) ==
    IF name \in DOMAIN domainObject.capabilities
    THEN <<domainObject.capabilities[name]>>
    ELSE <<>>

\* type.hasFeature(feature)
hasFeature(type, feature) == feature \in type.features

\* action.getMetadata()
getMetadata(action) == action.metadata

\* allowCreation, had it denied only a type without the feature.
allowCreationUnlessTypeLacks(domainObject) ==
    LET type == IF domainObject = <<>>
                THEN <<>>
                ELSE getCapability(domainObject[1], "type")
    IN  type = <<>> \/ hasFeature(type[1], "creation")

\* allowCreation(domainObject): the argument is <<>> when undefined.
allowCreation(domainObject) ==
    LET type == IF domainObject = <<>>
                THEN <<>>
                ELSE getCapability(domainObject[1], "type")
    IN  type # <<>> /\ hasFeature(type[1], "creation")

\* context.selectedObject || context.domainObject
selectedObject(context) ==
    IF Has(context, "selectedObject")
    THEN <<context.selectedObject>>
    ELSE IF Has(context, "domainObject")
         THEN <<context.domainObject>>
         ELSE <<>>

\* CopyPolicy.prototype.allow
allow(action, context) ==
    LET metadata == getMetadata(action)
    IN  IF Has(metadata, "key") /\ metadata.key = "copy"
        THEN allowCreation(selectedObject(context))
        ELSE TRUE

\* Actions: copy, others, and one whose metadata has no key.
PolicyActions ==
    {[metadata |-> [key |-> k]] : k \in {"copy", "move", "Copy", ""}}
        \cup {[metadata |-> [name |-> "copy"]]}

Features == {"creation", "view"}

\* Domain objects: without a type capability, and with a type of any
\* features.
DomainObjects ==
    {[id |-> i, capabilities |-> <<>>] : i \in {"a", "b"}} \cup
    {[id |-> i, capabilities |-> [type |-> [features |-> F]]] :
        i \in {"a", "b"}, F \in SUBSET Features}

\* Contexts: with or without a selected object and a domain object.
Contexts ==
    {(IF s = <<>> THEN <<>> ELSE [selectedObject |-> s[1]])
        @@ (IF d = <<>> THEN <<>> ELSE [domainObject |-> d[1]]) :
     s \in {<<>>} \cup {<<o>> : o \in {x \in DomainObjects : x.id = "a"}},
     d \in {<<>>} \cup {<<o>> : o \in {x \in DomainObjects : x.id = "b"}}}

Allow ==
    /\ \E action \in PolicyActions, context \in Contexts :
          /\ policyCall' = [action |-> action, context |-> context]
          /\ decision' = <<allow(action, context)>>
    /\ UNCHANGED <<regVars, pureVars, partialVars, tableVars, columnVars,
                   directiveVars>>

----------------------------------------------------------------------------
(* MCTRepresentation *)

\* most refresh calls of one linked element
MaxRefreshes == 6

\* most changes of one domain object's model
MaxModified == 1

\* The representation and view extensions the directive is made with.
Representations ==
    <<[key |-> "tree",
       bundle |-> [path |-> "platform", resources |-> "res"],
       templateUrl |-> "tree.html",
       uses |-> <<"composition">>,
       gestures |-> <<"drag">>],
      [key |-> "label",
       bundle |-> [path |-> "platform", resources |-> "res"],
       templateUrl |-> "label.html"]>>

RepresentationKeys == {Representations[i].key : i \in DOMAIN Representations}

\* The latest extension with this key: a later one replaces an earlier.
LatestWithKey(key) ==
    Representations[CHOOSE i \in DOMAIN Representations :
        /\ Representations[i].key = key
        /\ \A j \in DOMAIN Representations :
              Representations[j].key = key => j <= i]

representationMap == [key \in RepresentationKeys |-> LatestWithKey(key)]

pathMap ==
    [key \in RepresentationKeys |->
        LET representation == LatestWithKey(key)
        IN  representation.bundle.path \o "/"
                \o representation.bundle.resources \o "/"
                \o representation.templateUrl]

\* scope.field as the list of its value: <<>> when the scope has none.
Field(s, field) == IF field \in DOMAIN s THEN <<s[field]>> ELSE <<>>

\* domainObject.getModel()
getModel(allModels, domainObject) == allModels[domainObject]

\* domainObject.useCapability(used): a promise of the capability's value
\* for the object as it is when asked.
useCapability(allModels, domainObject, used) ==
    [of |-> domainObject, capability |-> used,
     modified |-> getModel(allModels, domainObject).modified]

\* gestureService.attachGestures(element, domainObject, gestureKeys): a new
\* handle, on which destroy() has not been called.
attachGestures(allHandles, domainObject, gestureKeys) ==
    Append(allHandles, [domainObject |-> domainObject,
                        gestures |-> gestureKeys,
                        destroyed |-> 0])

\* gestureHandle.destroy()
destroy(allHandles, h) ==
    [allHandles EXCEPT ![h].destroyed = @ + 1]

\* obj after obj.field = undefined
Unset(obj, field) == [f \in DOMAIN obj \ {field} |-> obj[f]]

\* One call of refresh.  st holds what it reads and writes: scope,
\* gestureHandle, handles, pending, warned.
refresh(st, allModels) ==
    LET key == Field(st.scope, "key")
        representation == IF key # <<>> /\ key[1] \in RepresentationKeys
                          THEN <<representationMap[key[1]]>>
                          ELSE <<>>
        domainObject == Field(st.scope, "domainObject")
        uses == IF representation = <<>>
                THEN <<>>
                ELSE OrEmpty(representation[1], "uses")
        gestureKeys == IF representation = <<>>
                       THEN <<>>
                       ELSE OrEmpty(representation[1], "gestures")
        withRepresentation == Assign(st.scope, "representation", <<>>)
        withInclusion ==
            IF key # <<>> /\ key[1] \in DOMAIN pathMap
            THEN Assign(withRepresentation, "inclusion", pathMap[key[1]])
            ELSE Unset(withRepresentation, "inclusion")
        released == IF st.gestureHandle # <<>>
                    THEN destroy(st.handles, st.gestureHandle[1])
                    ELSE st.handles
        warns == representation = <<>> /\ key # <<>>
    IN  IF domainObject # <<>>
        THEN [scope |-> Assign(withInclusion, "model",
                               getModel(allModels, domainObject[1])),
              pending |-> st.pending \o
                  [i \in DOMAIN uses |->
                      [used |-> uses[i],
                       c |-> useCapability(allModels, domainObject[1],
                                           uses[i])]],
              handles |-> attachGestures(released, domainObject[1],
                                         gestureKeys),
              gestureHandle |-> <<Len(released) + 1>>,
              warned |-> warns]
        ELSE [scope |-> withInclusion,
              pending |-> st.pending,
              handles |-> released,
              gestureHandle |-> st.gestureHandle,
              warned |-> warns]

\* The listeners of one digest: refresh, once per watch that fired.
RECURSIVE refreshTimes(_, _, _)
refreshTimes(st, allModels, n) ==
    IF n = 0 THEN st
             ELSE refreshTimes(refresh(st, allModels), allModels, n - 1)

\* The values of the three watches: key, domainObject and
\* domainObject.getModel().modified (undefined without a domain object).
Watched(s, allModels) ==
    <<Field(s, "key"),
      Field(s, "domainObject"),
      IF "domainObject" \in DOMAIN s
      THEN <<getModel(allModels, s.domainObject).modified>>
      ELSE <<>>>>

\* How many watches fire when the watched values go from `old` to `new`.
Fired(old, new) == Cardinality({w \in 1..3 : old[w] # new[w]})

\* A digest that runs refresh n times on the scope s.
Digest(s, allModels, n) ==
    \E st \in {refreshTimes([scope |-> s, gestureHandle |-> gestureHandle,
                             handles |-> handles, pending |-> pending,
                             warned |-> warned],
                            allModels, n)} :
        /\ refreshes + n <= MaxRefreshes
        /\ scope' = st.scope
        /\ gestureHandle' = st.gestureHandle
        /\ handles' = st.handles
        /\ pending' = st.pending
        /\ warned' = st.warned
        /\ refreshes' = refreshes + n
        /\ models' = allModels


\* The domain objects the element may represent and the keys it may be
\* given; no representation has the key "missing".
Represented == {"a", "b"}
ScopeKeys == RepresentationKeys \cup {"missing"}

\* A scope with the given key and domain object, each <<>> or <<value>>.
Bind(s, key, domainObject) ==
    LET keyed == IF key = <<>> THEN Unset(s, "key")
                               ELSE Assign(s, "key", key[1])
    IN  IF domainObject = <<>> THEN Unset(keyed, "domainObject")
                               ELSE Assign(keyed, "domainObject",
                                           domainObject[1])

Options(S) == {<<>>} \cup {<<x>> : x \in S}

\* link($scope, element) and the first digest, in which every watch fires.
Link ==
    /\ ~linked
    /\ linked' = TRUE
    /\ \E key \in Options(ScopeKeys), domainObject \in Options(Represented) :
          Digest(Bind(scope, key, domainObject), models, 3)
    /\ UNCHANGED <<regVars, pureVars, partialVars, tableVars, columnVars,
                   policyVars>>

\* The element is given another key or another domain object, or both.
ScopeChange ==
    /\ linked
    /\ \E key \in Options(ScopeKeys), domainObject \in Options(Represented) :
          \E s \in {Bind(scope, key, domainObject)} :
              /\ Fired(Watched(scope, models), Watched(s, models)) > 0
              /\ Digest(s, models,
                        Fired(Watched(scope, models), Watched(s, models)))
    /\ UNCHANGED linked
    /\ UNCHANGED <<regVars, pureVars, partialVars, tableVars, columnVars,
                   policyVars>>

\* A domain object is mutated: its model gets a new `modified`.
ModelChange ==
    /\ linked
    /\ \E o \in Represented :
          /\ models[o].modified < MaxModified
          /\ \E changed \in {[models EXCEPT ![o].modified = @ + 1]} :
                Digest(scope, changed,
                       Fired(Watched(scope, models), Watched(scope, changed)))
    /\ UNCHANGED linked
    /\ UNCHANGED <<regVars, pureVars, partialVars, tableVars, columnVars,
                   policyVars>>

\* A requested capability arrives: function (c) { $scope[used] = c; }
CapabilityResolved ==
    /\ \E i \in DOMAIN pending :
          /\ scope' = Assign(scope, pending[i].used, pending[i].c)
          /\ pending' = SubSeq(pending, 1, i - 1)
                            \o SubSeq(pending, i + 1, Len(pending))
    /\ UNCHANGED <<linked, models, gestureHandle, handles, warned, refreshes>>
    /\ UNCHANGED <<regVars, pureVars, partialVars, tableVars, columnVars,
                   policyVars>>

----------------------------------------------------------------------------
(* Initial states *)

InitRegistrar ==
    /\ registeredCategories = <<>>
    /\ appFactories = <<>>
    /\ flagWrites = <<>>
    /\ processed = {}
    /\ extensionGroup = <<>>
    /\ wasRegistered = {}
    /\ factoryCalls = <<>>
    /\ customCalls = <<>>
    /\ warnings = <<>>
    /\ returned = None
    /\ resolution = None

IdlePure ==
    /\ subject = None
    /\ identified = <<>>
    /\ serviceArgument = <<>>
    /\ produced = None

InitPure ==
    /\ subject \in [category : NamedCategories, extension : AllExtensions,
                    index : 0..MaxIndex]
    /\ identified = <<>>
    /\ serviceArgument = <<>>
    /\ produced = None

InitPartial ==
    /\ partialCall = None
    /\ partialOutcome = None
    /\ applied = <<>>

IdleTable ==
    /\ columnConfiguration = <<>>
    /\ model = <<>>
    /\ saved = None
    /\ previous = None
    /\ invoked = FALSE
    /\ mutated = FALSE
    /\ everMutated = FALSE

InitTable ==
    /\ columnConfiguration = <<>>
    /\ model \in InitialModels
    /\ saved = None
    /\ previous = None
    /\ invoked = FALSE
    /\ mutated = FALSE
    /\ everMutated = FALSE

InitColumns ==
    /\ columns = <<>>
    /\ built = None
    /\ configured = None

InitPolicy ==
    /\ policyCall = None
    /\ decision = <<>>

\* Before link: an empty scope, no handle, nothing requested.
InitDirective ==
    /\ linked = FALSE
    /\ scope = <<>>
    /\ models = [o \in Represented |-> [modified |-> 0]]
    /\ gestureHandle = <<>>
    /\ handles = <<>>
    /\ pending = <<>>
    /\ warned = FALSE
    /\ refreshes = 0

IdleLater == InitColumns /\ InitPolicy /\ InitDirective

\* A TableConfiguration just constructed, for a domain object.
InitTableColumns ==
    /\ columnConfiguration = <<>>
    /\ model \in ColumnModels
    /\ saved = None
    /\ previous = None
    /\ invoked = FALSE
    /\ mutated = FALSE
    /\ everMutated = FALSE

----------------------------------------------------------------------------
(* Specifications *)

Init == InitRegistrar /\ IdlePure /\ InitPartial /\ IdleTable /\ IdleLater

Next == RegisterExtensions

\* The registrar, over any sequence of registerExtensions calls.
Spec == Init /\ [][Next]_vars

NextNames == RegisterBracketExtensions \/ Resolve

\* The registrar and the injector that instantiates what it registered.
SpecNames == Init /\ [][NextNames]_vars

InitService ==
    InitRegistrar /\ InitPure /\ InitPartial /\ IdleTable /\ IdleLater

NextService == Identify \/ MakeServiceArgument \/ InvokeFactory

\* identify and makeServiceArgument on drawn arguments.
SpecService == InitService /\ [][NextService]_vars

NextPartial == UsePartialConstructor

\* Uses of a partial constructor.
SpecPartial == Init /\ [][NextPartial]_vars

InitTableConfiguration ==
    InitRegistrar /\ IdlePure /\ InitPartial /\ InitTable /\ IdleLater

NextTable == SaveColumnConfiguration

\* One TableConfiguration and its domain object.
SpecTable == InitTableConfiguration /\ [][NextTable]_vars

InitColumnsSpec ==
    InitRegistrar /\ IdlePure /\ InitPartial /\ InitTableColumns /\ IdleLater

NextColumns == BuildColumns \/ GetColumnConfiguration

\* The columns of one TableConfiguration and the configuration read off.
SpecColumns == InitColumnsSpec /\ [][NextColumns]_vars

NextPolicy == Allow

\* Calls of CopyPolicy.allow.
SpecPolicy == Init /\ [][NextPolicy]_vars

NextDirective == Link \/ ScopeChange \/ ModelChange \/ CapabilityResolved

\* One linked mct-representation element.
SpecDirective == Init /\ [][NextDirective]_vars

----------------------------------------------------------------------------
(* Claims about the registrar *)

\* Positions of the entries of `calls` made for category C.
CallsOf(calls, C) == {j \in DOMAIN calls : calls[j].category = C}

\* app.factory calls made before the latest registerExtensions call began.
EarlierFactories == Len(appFactories) - Len(factoryCalls)

CalledOnce == returned # None

\* C1: for every category C of the latest group that the registrar had not
\* registered before, with or without a custom registrar, the call made
\* exactly len(L) + 1 app.factory calls for C, exactly one of them under the
\* name C + EXTENSION_SUFFIX.
C1_NewCategoryFactoryCalls ==
    CalledOnce =>
        \A i \in DOMAIN extensionGroup :
            LET C == extensionGroup[i].category
                L == extensionGroup[i].extensions
                made == CallsOf(factoryCalls, C)
            IN  C \notin wasRegistered =>
                  /\ Cardinality(made) = Len(L) + 1
                  /\ Cardinality({j \in made : factoryCalls[j].name
                                        = C \o EXTENSION_SUFFIX}) = 1

C3_NamesPairwiseDistinct ==
    \A i, j \in DOMAIN appFactories :
        i # j => appFactories[i].name # appFactories[j].name

\* The dependencies a registration declares: all but its last element.
DeclaredDependencies(arg) == [i \in 1..(Len(arg) - 1) |-> arg[i].value]

IsAggregate(entry) == entry.arg[Len(entry.arg)].fn = "echo"

\* C5: an aggregate factory declares exactly the names under which its
\* category's extensions were registered, in list order, and resolving it
\* yields the list of the individually resolved extensions in that order.
C5_AggregateResolvesToExtensions ==
    /\ \A i \in DOMAIN appFactories :
          IsAggregate(appFactories[i]) =>
            LET C == appFactories[i].category
                own == CallsOf(appFactories, C) \ {i}
                deps == DeclaredDependencies(appFactories[i].arg)
            IN  /\ Len(deps) = Cardinality(own)
                /\ \A k \in DOMAIN deps :
                      /\ i - Len(deps) + k - 1 \in own
                      /\ deps[k] = appFactories[i - Len(deps) + k - 1].name
    /\ resolution # None /\ IsAggregate(resolution) =>
          LET deps == DeclaredDependencies(resolution.arg)
              each == [k \in DOMAIN deps |-> InjectorGet(appFactories, deps[k])]
          IN  /\ ~resolution.outcome.threw
              /\ Len(resolution.outcome.value) = Len(deps)
              /\ \A k \in DOMAIN deps :
                    /\ ~each[k].threw
                    /\ resolution.outcome.value[k] = each[k].value

\* C7: the flags start empty; a category is flagged exactly when some call
\* has processed it; each flag is true, was written once, and a flag set
\* when a call began is still set when it has returned.
C7_FlagsOnlyGrow ==
    /\ ~CalledOnce => DOMAIN registeredCategories = {}
    /\ DOMAIN registeredCategories = processed
    /\ \A c \in DOMAIN registeredCategories :
          /\ registeredCategories[c] = TRUE
          /\ c \in DOMAIN flagWrites /\ flagWrites[c] = 1
    /\ \A c \in DOMAIN flagWrites : flagWrites[c] <= 1
    /\ wasRegistered \subseteq DOMAIN registeredCategories

\* A category has been registered through the generic path and one through
\* a custom registrar, and a later call has repeated one of them.
C7_Witness ==
    /\ "a" \in processed
    /\ "directives" \in processed
    /\ warnings # <<>>
    /\ wasRegistered # {}

\* C8: registerExtensions returns the app and does not throw; every
\* category of the group that was new is registered by the call, and every
\* one that was registered before is skipped with a warning.
C8_ReturnsAppAndRegistersNew ==
    CalledOnce =>
        /\ ~returned.threw
        /\ returned.value = app
        /\ \A i \in DOMAIN extensionGroup :
              LET C == extensionGroup[i].category
              IN  IF C \in wasRegistered
                  THEN Cardinality(CallsOf(warnings, C)) = 1
                  ELSE /\ C \in DOMAIN registeredCategories
                       /\ C \in processed
                       /\ CallsOf(warnings, C) = {}

----------------------------------------------------------------------------
(* Claims about identify and makeServiceArgument *)

Digit(d) ==
    CASE d = 0 -> "0" [] d = 1 -> "1" [] d = 2 -> "2" [] d = 3 -> "3"
      [] d = 4 -> "4" [] d = 5 -> "5" [] d = 6 -> "6" [] d = 7 -> "7"
      [] d = 8 -> "8" [] d = 9 -> "9"

RECURSIVE Decimal(_)
Decimal(n) == IF n < 10 THEN Digit(n) ELSE Decimal(n \div 10) \o Digit(n % 10)

\* C4, as first stated: the name is C[key-i] when the extension declares a
\* key and C[i] when it declares none.
C4_NameFromDeclaredKey ==
    identified # <<>> =>
        LET C == subject.category
            e == subject.extension
            i == Decimal(subject.index)
        IN  identified[1] = IF Has(e, "key")
                            THEN C \o "[" \o e.key \o "-" \o i \o "]"
                            ELSE C \o "[" \o i \o "]"

\* C4, amended: the name is C[key-i] when the extension declares a
\* non-empty key and C[i] when it declares none or an empty one; {key: "k"}
\* at index 2 of "types" is named "types[k-2]".
C4_NameFromNonEmptyKey ==
    identified # <<>> =>
        LET C == subject.category
            e == subject.extension
            i == Decimal(subject.index)
        IN  /\ identified[1] = IF Has(e, "key") /\ e.key # ""
                               THEN C \o "[" \o e.key \o "-" \o i \o "]"
                               ELSE C \o "[" \o i \o "]"
            /\ (C = "types" /\ Has(e, "key") /\ e.key = "k"
                    /\ subject.index = 2)
                 => identified[1] = "types[k-2]"

\* The extension {key: "k", depends: ["a", "b"]} at index 2 of "types" has
\* been named.
C4_Witness ==
    /\ identified = <<"types[k-2]">>
    /\ subject.index = 2
    /\ Has(subject.extension, "depends")
    /\ subject.extension.depends = <<"a", "b">>

\* C6: for a non-function extension v the service argument is v.depends
\* (nothing when absent) followed by one function, and that function
\* returns v whatever values it is called with.
C6_StaticFactoryReturnsValue ==
    (subject # None /\ subject.extension.typeof # "function") =>
        LET v == subject.extension
            depends == IF Has(v, "depends") THEN v.depends ELSE <<>>
            n == Len(depends)
        IN  /\ serviceArgument # <<>> =>
                /\ Len(serviceArgument) = n + 1
                /\ \A k \in 1..n : serviceArgument[k] = Str(depends[k])
                /\ serviceArgument[n + 1].typeof = "function"
            /\ produced # None =>
                /\ Len(produced.args) = n
                /\ ~produced.outcome.threw
                /\ produced.outcome.value = v

\* The factory of a keyed plain extension with two dependencies has been
\* called with two different values.
C6_Witness ==
    /\ subject # None
    /\ subject.extension.typeof = "object"
    /\ Has(subject.extension, "depends")
    /\ Has(subject.extension, "key")
    /\ produced # None
    /\ Len(produced.args) = 2
    /\ produced.args[1] # produced.args[2]
    /\ ~produced.outcome.threw

----------------------------------------------------------------------------
(* Claims about PartialConstructor *)

\* C9: PartialConstructor(K)(d1..dn)(a1..am) applies K once more, to a
\* fresh object, with d1..dn followed by a1..am, and returns that object.
C9_AppliesConstructorToFreshObject ==
    partialCall # None =>
        /\ ~partialOutcome.threw
        /\ applied # <<>>
        /\ LET last == applied[Len(applied)]
           IN  /\ last.Constructor = partialCall.Constructor.name
               /\ last.arguments = partialCall.services \o partialCall.others
               /\ last.instance = partialOutcome.value.object
               /\ \A j \in 1..(Len(applied) - 1) :
                     applied[j].instance # last.instance

----------------------------------------------------------------------------
(* Claims about TableConfiguration *)

\* Two configurations with the same keys and the same value at every key.
SameConfiguration(a, b) ==
    /\ DOMAIN a = DOMAIN b
    /\ \A k \in DOMAIN a : a[k] = b[k]

HasColumns(m) ==
    /\ Has(m, "configuration")
    /\ Has(m.configuration, "table")
    /\ Has(m.configuration.table, "columns")

\* C10: the latest saveColumnConfiguration(c) used the mutation capability
\* exactly when c differed from the configuration last saved; when the
\* callback ran, the model's columns and the remembered configuration are
\* c; when it did not, model and remembered configuration are as before;
\* once a callback has run the two agree.
C10_SavesOnlyChanges ==
    saved # None =>
        LET c == saved.columnConfig
        IN  /\ invoked <=> ~SameConfiguration(c, previous.columnConfiguration)
            /\ mutated => invoked
            /\ mutated =>
                 /\ HasColumns(model)
                 /\ SameConfiguration(model.configuration.table.columns, c)
                 /\ SameConfiguration(columnConfiguration, c)
            /\ ~mutated =>
                 /\ model = previous.model
                 /\ SameConfiguration(columnConfiguration,
                                      previous.columnConfiguration)
            /\ everMutated =>
                 /\ HasColumns(model)
                 /\ SameConfiguration(model.configuration.table.columns,
                                      columnConfiguration)

\* A configuration was saved and then a configuration equal to it, which
\* ran no callback.
C10_Witness ==
    /\ saved # None
    /\ everMutated
    /\ ~invoked
    /\ DOMAIN saved.columnConfig = Titles
    /\ Has(model, "name")

----------------------------------------------------------------------------
(* Claims about the columns *)

\* Every entry's list under `field`, one after the other.
RECURSIVE AllOf(_, _)
AllOf(entries, field) ==
    IF entries = <<>>
    THEN <<>>
    ELSE OrEmpty(Head(entries), field) \o AllOf(Tail(entries), field)

\* C11: after buildColumns(metadata) the column list is the Name column,
\* then a domain column for every domain of every entry, then a range
\* column for every range of every entry; it is empty when there is no
\* domain and no range.  Being a function of the metadata alone, it does not
\* depend on the columns built before.
C11_NameThenDomainsThenRanges ==
    built # None =>
        LET entries == IF built.metadata.given THEN built.metadata.value
                                               ELSE <<>>
            domains == AllOf(entries, "domains")
            ranges == AllOf(entries, "ranges")
            domainColumns == [i \in DOMAIN domains |-> DomainColumn(domains[i])]
            rangeColumns == [i \in DOMAIN ranges |-> RangeColumn(ranges[i])]
        IN  columns = IF Len(domains) + Len(ranges) > 0
                      THEN <<NameColumn>> \o domainColumns \o rangeColumns
                      ELSE <<>>

\* C12: the latest getColumnConfiguration returned a mapping whose keys are
\* the column headers; a header the persisted configuration holds maps to
\* the persisted value, and any other header maps to true.
C12_ConfigurationOfHeaders ==
    configured # None =>
        LET headers == {configured.headers[p] : p \in DOMAIN configured.headers}
            persisted == IF HasColumns(configured.model)
                         THEN configured.model.configuration.table.columns
                         ELSE <<>>
        IN  /\ DOMAIN configured.configuration = headers
            /\ \A h \in headers :
                  configured.configuration[h] =
                      IF h \in DOMAIN persisted THEN Visible(persisted[h])
                                                ELSE Visible(TRUE)

----------------------------------------------------------------------------
(* Claims about CopyPolicy *)

\* The target of the latest allow call, as a list: the selected object when
\* the context has one, otherwise the domain object, otherwise nothing.
Target ==
    LET context == policyCall.context
    IN  IF "selectedObject" \in DOMAIN context
        THEN <<context.selectedObject>>
        ELSE IF "domainObject" \in DOMAIN context
             THEN <<context.domainObject>>
             ELSE <<>>

IsCopy ==
    /\ "key" \in DOMAIN policyCall.action.metadata
    /\ policyCall.action.metadata.key = "copy"

TargetHasType ==
    Target # <<>> /\ "type" \in DOMAIN Target[1].capabilities

TargetCreatable ==
    TargetHasType /\ "creation" \in Target[1].capabilities.type.features

\* C13 as stated: allow permits every action that is not a copy, and denies
\* a copy only when the target has a type and the type has no creation
\* feature.
C13_DeniedOnlyForTypeWithoutCreation ==
    policyCall # None =>
        decision = <<~(IsCopy /\ TargetHasType /\ ~TargetCreatable)>>

\* C13 amended: allow permits every action that is not a copy, and permits
\* a copy exactly when there is a target, it has a type, and the type has
\* the creation feature.
C13_CopyNeedsCreatableType ==
    policyCall # None =>
        decision = <<~IsCopy \/ TargetCreatable>>

\* A copy of a selected object that has no type was denied, although the
\* context's domain object is creatable.
C13_Witness ==
    /\ policyCall # None
    /\ IsCopy
    /\ "selectedObject" \in DOMAIN policyCall.context
    /\ "domainObject" \in DOMAIN policyCall.context
    /\ ~TargetHasType
    /\ "type" \in DOMAIN policyCall.context.domainObject.capabilities
    /\ "creation" \in policyCall.context.domainObject.capabilities.type.features
    /\ decision = <<FALSE>>

----------------------------------------------------------------------------
(* Claims about MCTRepresentation *)

\* C14: every handle but the latest has been destroyed, no handle has been
\* destroyed twice, and so at most one handle is not destroyed.
C14_HandlesDestroyedOnce ==
    /\ \A h \in DOMAIN handles :
          h < Len(handles) => handles[h].destroyed >= 1
    /\ \A h \in DOMAIN handles : handles[h].destroyed <= 1
    /\ Cardinality({h \in DOMAIN handles : handles[h].destroyed = 0}) <= 1

\* The capabilities the representation of the scope's key uses.
CurrentUses ==
    IF "key" \in DOMAIN scope /\ scope.key \in RepresentationKeys
          /\ "uses" \in DOMAIN representationMap[scope.key]
    THEN {representationMap[scope.key].uses[i] :
             i \in DOMAIN representationMap[scope.key].uses}
    ELSE {}

\* Every capability any representation uses.
AllCapabilities ==
    UNION {{Representations[r].uses[i] : i \in DOMAIN Representations[r].uses} :
              r \in {q \in DOMAIN Representations :
                        "uses" \in DOMAIN Representations[q]}}

\* C15: when nothing is pending, a capability field of the scope is set
\* only for a capability the current representation uses; with a domain
\* object in the scope, every capability the representation uses is set
\* and holds that capability of that domain object as it now is.
C15_FieldsAreCurrent ==
    (linked /\ pending = <<>>) =>
        \A used \in AllCapabilities :
            /\ used \in DOMAIN scope => used \in CurrentUses
            /\ (used \in CurrentUses /\ "domainObject" \in DOMAIN scope) =>
                  /\ used \in DOMAIN scope
                  /\ scope[used] = [of |-> scope.domainObject,
                                    capability |-> used,
                                    modified |->
                                        models[scope.domainObject].modified]

====
